---- MODULE Spec2Model ----
(***************************************************************************)
(* Model of the Jira -> Pulsar ingestion pipeline of jira-astra-demo:      *)
(*   jira-pulsar-integration/jira-to-pulsar-sync.py   (backfill driver)    *)
(*   jira-pulsar-integration/jira-pulsar-webhook.py   (webhook driver)     *)
(* The two files share filter_relevant_fields, prepare_data_for_pulsar,  *)
(* get_issue_details and send_to_pulsar line for line.                     *)
(*                                                                         *)
(* JSON values are tagged records:                                         *)
(*   [t |-> "null"]                      None / null                       *)
(*   [t |-> "str",  s |-> "abc"]         a str whose characters the code   *)
(*                                       never inspects                    *)
(*   [t |-> "str",  c |-> <<..>>]        a str the code builds or splits,  *)
(*                                       kept as its sequence of pieces    *)
(*   [t |-> "list", l |-> <<..>>]        a list                            *)
(*   [t |-> "dict", d |-> f]             a dict, f a function on its keys  *)
(*   [t |-> "raise"]                     the call raised                   *)
(***************************************************************************)
EXTENDS Integers, Sequences, FiniteSets, TLC

VARIABLES
    \* the environment shared by the drivers
    corpus,          \* number of issues the tracker holds
    requests,        \* the REST requests the tracker has received, in order
    sends,           \* the producer.send calls the bus has received, in order
    log,             \* the lines printed to stdout, in order
    clock,           \* index in Instants of the next datetime.now()
    \* the process running a script: its environment and its bus handles
    env,             \* the environment variables that are set
    proc,            \* "importing", "main", "exited" or "failed"
    client,          \* pulsar.Client: "none", "open" or "closed"
    producer,        \* the producer: "none", "open" or "closed"
    \* jira-to-pulsar-sync.py
    b_pc, start_at, issues, idx, b_issue_data, b_data_for_pulsar,
    \* jira-pulsar-webhook.py, one entry per invocation of jira_webhook
    w_pc, w_req, w_event_type, w_issue_data, w_data, w_resp,
    \* the normalizer and envelope builder applied as pure functions
    n_pc, n_raw, n_out, n_again, n_env

envvars == <<corpus, requests, sends, log, clock>>

pvars == <<env, proc, client, producer>>

bvars == <<b_pc, start_at, issues, idx, b_issue_data, b_data_for_pulsar>>

wvars == <<w_pc, w_req, w_event_type, w_issue_data, w_data, w_resp>>

nvars == <<n_pc, n_raw, n_out, n_again, n_env>>

vars == <<envvars, pvars, bvars, wvars, nvars, pvars>>

----------------------------------------------------------------------------
(* JSON values                                                             *)

Null == [t |-> "null"]

Str(s) == [t |-> "str", s |-> s]

Text(c) == [t |-> "str", c |-> c]

List(l) == [t |-> "list", l |-> l]

Dict(d) == [t |-> "dict", d |-> d]

PyRaise == [t |-> "raise"]

Unset == [t |-> "unset"]

EmptyMap == [k \in {} |-> Null]

IsDict(v) == v.t = "dict"

IsList(v) == v.t = "list"

IsNull(v) == v.t = "null"

IsStr(v) == v.t = "str"

Raised(v) == v.t = "raise"

\* dict.get(k, default) on the mapping of a dict
PyGet(d, k, default) == IF k \in DOMAIN d THEN d[k] ELSE default

\* {k: v for k, v in d.items() if k in keep}
Restrict(d, keep) == [k \in (DOMAIN d) \cap keep |-> d[k]]

\* Python truthiness of a JSON value or None (the `if issue_data:` tests)
Truthy(v) ==
    CASE v.t = "null" -> FALSE
      [] v.t = "dict" -> DOMAIN v.d # {}
      [] v.t = "list" -> Len(v.l) > 0
      [] v.t = "str"  -> IF "s" \in DOMAIN v THEN v.s # "" ELSE Len(v.c) > 0
      [] OTHER -> TRUE

----------------------------------------------------------------------------
(* filter_relevant_fields                                                  *)

relevant_fields == {"id", "key", "fields"}

relevant_subfields ==
    {"issuetype", "project", "priority", "summary", "description", "status",
     "creator", "reporter", "created", "updated", "labels", "comment"}

relevant_nested_fields ==
    [statusCategory |-> {"key", "name", "colorName"},
     creator        |-> {"displayName", "emailAddress", "timeZone"},
     reporter       |-> {"displayName", "emailAddress", "timeZone"},
     project        |-> {"key", "name", "projectTypeKey"},
     issuetype      |-> {"name", "description", "subtask"}]

\* the value `for comment in field_value.get("comments", [])` iterates over;
\* PyRaise when the iteration or the body of the comprehension raises
CommentItems(field_value) ==
    LET cs == PyGet(field_value.d, "comments", List(<<>>))
    IN  CASE IsList(cs) -> cs
          [] IsDict(cs) /\ DOMAIN cs.d = {} -> List(<<>>)
          [] IsStr(cs) /\ ~Truthy(cs) -> List(<<>>)
          [] OTHER -> PyRaise

\* comment.get("author", {}).get(...) needs a dict comment and a dict author
CommentRaises(comment) ==
    \/ ~IsDict(comment)
    \/ ~IsDict(PyGet(comment.d, "author", Dict(EmptyMap)))

\* variant: the author is flattened to its display name
RebuildCommentFlatAuthor(comment) ==
    LET author == PyGet(comment.d, "author", Dict(EmptyMap)).d
    IN  Dict([author  |-> PyGet(author, "displayName", Null),
              body    |-> PyGet(comment.d, "body", Null),
              created |-> PyGet(comment.d, "created", Null),
              updated |-> PyGet(comment.d, "updated", Null)])

\* one entry of the rebuilt "comments" list (lines 130-138)
RebuildComment(comment) ==
    LET author == PyGet(comment.d, "author", Dict(EmptyMap)).d
    IN  Dict([author  |-> Dict([displayName  |-> PyGet(author, "displayName", Null),
                                emailAddress |-> PyGet(author, "emailAddress", Null)]),
              body    |-> PyGet(comment.d, "body", Null),
              created |-> PyGet(comment.d, "created", Null),
              updated |-> PyGet(comment.d, "updated", Null)])

\* the three branches of the loop body (lines 121-144) for one retained field
FilterField(field_key, field_value) ==
    IF IsDict(field_value) /\ field_key \in DOMAIN relevant_nested_fields
    THEN Dict(Restrict(field_value.d, relevant_nested_fields[field_key]))
    ELSE IF field_key = "comment" /\ IsDict(field_value)
    THEN LET items == CommentItems(field_value).l
         IN  Dict([comments |->
                     List([i \in 1..Len(items) |-> RebuildComment(items[i])])])
    ELSE field_value

\* does filter_relevant_fields(issue_data) raise
FilterRaises(issue_data) ==
    \/ ~IsDict(issue_data)
    \/ /\ "fields" \in DOMAIN issue_data.d
       /\ \/ ~IsDict(issue_data.d["fields"])
          \/ /\ "comment" \in DOMAIN issue_data.d["fields"].d
             /\ IsDict(issue_data.d["fields"].d["comment"])
             /\ LET items == CommentItems(issue_data.d["fields"].d["comment"])
                IN  \/ Raised(items)
                    \/ \E i \in 1..Len(items.l) : CommentRaises(items.l[i])

\* variant: the filtered `fields` is assigned whether or not the issue has
\* a `fields` key (from the unused `fields = issue_data.get("fields", {})`)
filter_relevant_fields_always(issue_data) ==
    IF FilterRaises(issue_data) THEN PyRaise
    ELSE LET filtered_data == Restrict(issue_data.d, relevant_fields)
             fields == PyGet(issue_data.d, "fields", Dict(EmptyMap)).d
             kept   == (DOMAIN fields) \cap relevant_subfields
             filtered_fields == [k \in kept |-> FilterField(k, fields[k])]
         IN  Dict([k \in (DOMAIN filtered_data) \cup {"fields"} |->
                     IF k = "fields" THEN Dict(filtered_fields)
                     ELSE filtered_data[k]])

filter_relevant_fields(issue_data) ==
    IF FilterRaises(issue_data) THEN PyRaise
    ELSE LET filtered_data == Restrict(issue_data.d, relevant_fields)
         IN  IF "fields" \in DOMAIN filtered_data
             THEN LET fields == filtered_data["fields"].d
                      kept   == (DOMAIN fields) \cap relevant_subfields
                      filtered_fields == [k \in kept |-> FilterField(k, fields[k])]
                  IN  Dict([k \in DOMAIN filtered_data |->
                              IF k = "fields" THEN Dict(filtered_fields)
                              ELSE filtered_data[k]])
             ELSE Dict(filtered_data)

----------------------------------------------------------------------------
(* prepare_data_for_pulsar                                                 *)

\* the variables the two scripts read with os.getenv
EnvVars ==
    {"PULSAR_SERVICE", "PULSAR_TOKEN", "PULSAR_TOPIC",
     "JIRA_URL_LOCAL", "JIRA_USERNAME_LOCAL", "JIRA_PASSWORD_LOCAL"}

\* get_jira_config: os.getenv gives None for a variable that is not set, and
\* the f-strings that build the urls print it as "None"
jira_config ==
    [jira_url |-> IF "JIRA_URL_LOCAL" \in env THEN "http://jira.local:8080" ELSE "None"]

DigitChars == <<"0", "1", "2", "3", "4", "5", "6", "7", "8", "9">>

RECURSIVE Pow10(_)
Pow10(w) == IF w = 0 THEN 1 ELSE 10 * Pow10(w - 1)

\* strftime's zero-padded decimal field of width w
Pad(n, w) == [i \in 1..w |-> DigitChars[((n \div Pow10(w - i)) % 10) + 1]]

\* the instants datetime.now(timezone.utc) returns in the model
Instants ==
    << [Y |-> 2024, M |-> 1,  D |-> 1,  h |-> 0,  mi |-> 0,  s |-> 0,  us |-> 0],
       [Y |-> 2024, M |-> 3,  D |-> 7,  h |-> 9,  mi |-> 5,  s |-> 3,  us |-> 1999],
       [Y |-> 2025, M |-> 12, D |-> 31, h |-> 23, mi |-> 59, s |-> 59, us |-> 999999] >>

\* the same format with a space where the code writes the letter T
StrftimeSpace(now) ==
    Pad(now.Y, 4) \o <<"-">> \o Pad(now.M, 2) \o <<"-">> \o Pad(now.D, 2)
      \o <<" ">> \o Pad(now.h, 2) \o <<":">> \o Pad(now.mi, 2) \o <<":">>
      \o Pad(now.s, 2) \o <<".">> \o Pad(now.us, 6)

\* now.strftime("%Y-%m-%dT%H:%M:%S.%f")
Strftime(now) ==
    Pad(now.Y, 4) \o <<"-">> \o Pad(now.M, 2) \o <<"-">> \o Pad(now.D, 2)
      \o <<"T">> \o Pad(now.h, 2) \o <<":">> \o Pad(now.mi, 2) \o <<":">>
      \o Pad(now.s, 2) \o <<".">> \o Pad(now.us, 6)

\* strftime(...)[:-3] + "+0000"
Timestamp(now) ==
    LET f == Strftime(now)
    IN  SubSeq(f, 1, Len(f) - 3) \o <<"+", "0", "0", "0", "0">>

\* s.split(sep)[0]: the pieces before the first occurrence of sep
RECURSIVE SplitFirst(_, _)
SplitFirst(s, sep) ==
    IF s = <<>> \/ Head(s) = sep THEN <<>>
    ELSE <<Head(s)>> \o SplitFirst(Tail(s), sep)

\* the pieces of a str value
Pieces(v) == IF "c" \in DOMAIN v THEN v.c
             ELSE IF v.s = "" THEN <<>> ELSE <<v.s>>

\* prepare_data_for_pulsar(issue_data, event_type) at instant now
prepare_data_for_pulsar(issue_data, event_type, now) ==
    LET timestamp == Timestamp(now)
        filtered  == filter_relevant_fields(issue_data)
        key       == PyGet(issue_data.d, "key", Str(""))
    IN  \* line 158 concatenates the key with +: TypeError unless it is a str
        IF Raised(filtered) \/ ~IsStr(key) THEN PyRaise
        ELSE Dict([k \in (DOMAIN filtered.d) \cup {"timestamp", "date", "event_type", "url"} |->
                     CASE k = "timestamp"  -> Text(timestamp)
                       [] k = "date"       -> Text(SplitFirst(timestamp, "T"))
                       [] k = "event_type" -> event_type
                       [] k = "url"        -> Text(<<jira_config.jira_url, "/browse/">> \o Pieces(key))
                       [] OTHER            -> filtered.d[k]])

----------------------------------------------------------------------------
(* Inputs of the normalizer: raw issues as the tracker's REST API returns   *)
(* them, built from optional parts                                         *)

\* a mapping with the optional entry k (absent when v is Unset)
Opt(k, v) == IF v = Unset THEN EmptyMap ELSE (k :> v)

UserFull ==
    Dict([displayName |-> Str("Alice"), emailAddress |-> Str("a@x.com"),
          timeZone |-> Str("UTC"), accountId |-> Str("u1"), self |-> Str("http://u1")])

StatusCategoryFull ==
    Dict([key |-> Str("new"), name |-> Str("To Do"), colorName |-> Str("blue-gray"),
          id |-> Str("2"), self |-> Str("http://sc2")])

CommentFull ==
    Dict([author  |-> UserFull, body |-> Str("hi"),
          created |-> Str("2024-01-01T00:00:00.000+0000"),
          updated |-> Str("2024-01-01T00:00:00.000+0000"),
          id |-> Str("c1"), self |-> Str("http://c1")])

CommentBare == Dict([body |-> Null])

CommentNormal ==
    Dict([author  |-> Dict([displayName |-> Str("Bob"), emailAddress |-> Null]),
          body |-> Str("ok"), created |-> Str("2024-01-02"), updated |-> Str("2024-01-02")])

SummaryOpts == {Unset, Str("Fix bug")}

StatusOpts ==
    {Unset,
     Dict([name |-> Str("To Do"), id |-> Str("1"), statusCategory |-> StatusCategoryFull]),
     Dict([name |-> Str("Done"),
           statusCategory |-> Dict([key |-> Str("done"), name |-> Str("Done"),
                                    colorName |-> Str("green")])])}

CreatorOpts == {Unset, Null, UserFull}

IssuetypeOpts ==
    {Unset,
     Dict([name |-> Str("Bug"), subtask |-> Str("false"), iconUrl |-> Str("http://i")])}

CommentOpts ==
    {Unset,
     Null,
     Dict(EmptyMap),
     Dict([total |-> Str("0"), comments |-> List(<<>>)]),
     Dict([total |-> Str("1"), comments |-> List(<<CommentFull>>)]),
     Dict([comments |-> List(<<CommentBare, CommentNormal>>)]),
     Dict([comments |-> List(<<Dict([author |-> Null, body |-> Str("anon")])>>)]),
     Dict([comments |-> Null])}

ExtraOpts == {Unset, Str("x")}

FieldsOpts ==
    {Unset, Null} \cup
    { Dict(Opt("summary", su) @@ Opt("status", st) @@ Opt("creator", cr)
           @@ Opt("issuetype", it) @@ Opt("comment", co) @@ Opt("assignee", ex)) :
        su \in SummaryOpts, st \in StatusOpts, cr \in CreatorOpts,
        it \in IssuetypeOpts, co \in CommentOpts, ex \in ExtraOpts }

RawIssues ==
    { Dict(("id" :> Str("10001")) @@ Opt("key", ke) @@ Opt("self", ex) @@ Opt("fields", fi)) :
        ke \in {Unset, Null, Str(""), Str("TES-1")}, ex \in ExtraOpts, fi \in FieldsOpts }

EventTypes == {Str("initial_load"), Str("jira:issue_updated"), Str("Unknown Event")}

----------------------------------------------------------------------------
(* Specification of the normalizer and envelope builder as pure functions  *)

NIdle ==
    /\ n_pc = "off"
    /\ n_raw = Unset
    /\ n_out = Unset
    /\ n_again = Unset
    /\ n_env = Unset

\* a process whose module-level setup succeeded with every variable set
Running ==
    /\ env = EnvVars
    /\ proc = "main"
    /\ client = "open"
    /\ producer = "open"

EnvInit ==
    /\ requests = <<>>
    /\ sends = <<>>
    /\ log = <<>>
    /\ clock = 1

BIdle ==
    /\ b_pc = "off"
    /\ start_at = 0
    /\ issues = <<>>
    /\ idx = 0
    /\ b_issue_data = Null
    /\ b_data_for_pulsar = Null

\* bounds of the webhook model
MaxInvocations == 2

WebhookIssues == 2

Invocations == 1..MaxInvocations

WIdle ==
    /\ w_pc = [i \in Invocations |-> "off"]
    /\ w_req = [i \in Invocations |-> Unset]
    /\ w_event_type = [i \in Invocations |-> Unset]
    /\ w_issue_data = [i \in Invocations |-> Null]
    /\ w_data = [i \in Invocations |-> Null]
    /\ w_resp = [i \in Invocations |-> Unset]

NInit ==
    /\ n_pc = "input"
    /\ n_raw \in RawIssues
    /\ n_out = Unset
    /\ n_again = Unset
    /\ n_env = Unset
    /\ corpus = 0
    /\ EnvInit
    /\ Running
    /\ BIdle
    /\ WIdle

\* normalize(raw)
NNormalize ==
    /\ n_pc = "input"
    /\ n_out' = filter_relevant_fields(n_raw)
    /\ n_pc' = "normalized"
    /\ UNCHANGED <<n_raw, n_again, n_env, envvars, bvars, wvars, pvars>>

\* normalize(normalize(raw))
NRenormalize ==
    /\ n_pc = "normalized"
    /\ ~Raised(n_out)
    /\ n_again' = filter_relevant_fields(n_out)
    /\ n_pc' = "renormalized"
    /\ UNCHANGED <<n_raw, n_out, n_env, envvars, bvars, wvars, pvars>>

\* build(raw, event_type) at some instant
NBuild ==
    /\ n_pc = "renormalized"
    /\ \E et \in EventTypes, i \in 1..Len(Instants) :
          n_env' = prepare_data_for_pulsar(n_raw, et, Instants[i])
    /\ n_pc' = "built"
    /\ UNCHANGED <<n_raw, n_out, n_again, envvars, bvars, wvars, pvars>>

NNext == NNormalize \/ NRenormalize \/ NBuild

SpecNormalize == NInit /\ [][NNext]_vars


----------------------------------------------------------------------------
(* The tracker and the bus                                                 *)

\* bounds of the model
MaxIssues == 127

SmallBatch == 3

FaultWindow == 3

\* jira-to-pulsar-sync.py line 40
max_results == 50

\* sizes of the tracker's corpus the backfill is run against
CorpusSizes ==
    {n \in 0..MaxIssues : n <= SmallBatch \/ n % max_results = 0 \/ n = MaxIssues}

\* the id and the key of the i-th issue of the tracker ("10001", "TES-1", ...)
IdOf(i) == Text(Pad(10000 + i, 5))

KeyOf(i) == Text(<<"TES-">> \o Pad(i, 3))

\* an entry of the `issues` array of a search response
Summary(i) == Dict([id |-> IdOf(i), key |-> KeyOf(i)])

\* the full issue GET /rest/api/2/issue/{id} returns for the i-th issue
IssueDoc(i) ==
    LET head == [id |-> IdOf(i), key |-> KeyOf(i), self |-> Str("http://jira/issue")]
    IN  CASE i % 4 = 1 ->
               Dict(head @@ [fields |->
                   Dict([summary |-> Str("Fix bug"),
                         status  |-> Dict([name |-> Str("To Do"),
                                           statusCategory |-> StatusCategoryFull]),
                         creator |-> UserFull,
                         comment |-> Dict([comments |-> List(<<CommentFull>>)]),
                         assignee |-> UserFull])])
          [] i % 4 = 2 -> Dict(head)
          [] i % 4 = 3 ->
               Dict(head @@ [fields |->
                   Dict([summary |-> Str("Add feature"),
                         comment |-> Dict([comments |-> List(<<>>)])])])
          [] OTHER ->
               Dict(head @@ [fields |-> Dict([summary |-> Str("Chore")])])

\* the index of the issue with this id
IndexOf(id) == CHOOSE i \in 1..(MaxIssues + 1) : IdOf(i) = id

Min(a, b) == IF a <= b THEN a ELSE b

\* the `issues` array of the search response for startAt, maxResults
\* ("ORDER BY created DESC": newest first, the corpus itself being static)
Page(startAt, maxResults) ==
    [k \in 1..(IF startAt >= corpus THEN 0 ELSE Min(maxResults, corpus - startAt)) |->
        Summary(startAt + k)]

\* outcomes of a search request: a 200 with the page, a transport error, a
\* non-2xx status, a 200 whose JSON body has no `issues` array
PageOutcomes == {"ok", "transport", "http", "nokey"}

\* outcomes of an issue request: the issue, a transport error, a non-2xx
\* status, a 200 with an empty JSON object
IssueOutcomes == {"ok", "transport", "http", "empty"}

\* without JIRA_URL_LOCAL the url is "None/rest/..." and requests.get raises
\* MissingSchema, a RequestException, before anything is sent
PageOutcomesFor(e) == IF "JIRA_URL_LOCAL" \in e THEN PageOutcomes ELSE {"transport"}

IssueOutcomesFor(e) == IF "JIRA_URL_LOCAL" \in e THEN IssueOutcomes ELSE {"transport"}

\* outcomes of producer.send
SendOutcomes == {"ok", "fail"}

\* requests.RequestException covers transport errors and raise_for_status
IsRequestException(outcome) == outcome \in {"transport", "http"}

Tick == clock' = IF clock < Len(Instants) THEN clock + 1 ELSE clock

----------------------------------------------------------------------------
(* get_issue_details and send_to_pulsar (the same in both files)           *)

\* variant: a non-2xx answer is not checked (no raise_for_status) and its
\* body is returned as the issue
get_issue_details_unchecked(id, outcome) ==
    CASE outcome = "ok"    -> IssueDoc(IndexOf(id))
      [] outcome = "http"  -> Dict([errorMessages |-> List(<<Str("Issue Does Not Exist")>>)])
      [] outcome = "empty" -> Dict(EmptyMap)
      [] OTHER             -> Null

\* the value get_issue_details returns for an outcome of its request
get_issue_details(id, outcome) ==
    CASE outcome = "ok"    -> IssueDoc(IndexOf(id))
      [] outcome = "empty" -> Dict(EmptyMap)
      [] OTHER             -> Null

\* the lines get_issue_details prints
DetailsLog(id, outcome) ==
    IF IsRequestException(outcome)
    THEN <<[msg |-> "Error fetching details for issue", id |-> id]>>
    ELSE <<>>

\* the lines send_to_pulsar prints: the success line reads data['id'] inside
\* the try block
SendLog(data, outcome) ==
    IF outcome = "ok" /\ "id" \in DOMAIN data.d
    THEN <<[msg |-> "Data sent to Pulsar successfully", id |-> data.d["id"]]>>
    ELSE <<[msg |-> "Error sending data to Pulsar"]>>

\* variant: send_to_pulsar lets the failure of producer.send propagate
SendReturnsReraises(outcome) == outcome = "ok"

\* does send_to_pulsar return normally after this outcome of producer.send
\* (`except Exception` catches every failure)
SendReturns(outcome) == TRUE

----------------------------------------------------------------------------
(* jira-to-pulsar-sync.py: get_all_issues and main                         *)

\* variant: the loop ends only on an empty page
LoopBreaksWhenEmpty(n) == n = 0

\* line 60: the loop's only exit test on a successful page
LoopBreaks(n) == n < max_results

\* lines 63-65: which failures of a page fetch the loop catches
PageErrorCaught(outcome) == IsRequestException(outcome)

\* variant: get_issue_details without its try/except
DetailsReturnsUncaught(outcome) == ~IsRequestException(outcome)

\* does get_issue_details return (None) rather than raise on this outcome
DetailsReturns(outcome) == TRUE

BInit ==
    /\ corpus \in CorpusSizes
    /\ EnvInit
    /\ Running
    /\ b_pc = "Start"
    /\ start_at = 0
    /\ issues = <<>>
    /\ idx = 0
    /\ b_issue_data = Null
    /\ b_data_for_pulsar = Null
    /\ WIdle
    /\ NIdle

\* can pulsar.Client(service_url, authentication=AuthenticationToken(token))
\* be built: both arguments must be str, None raises ValueError
ClientCreated(e) == {"PULSAR_SERVICE", "PULSAR_TOKEN"} \subseteq e

\* outcomes of client.create_producer(topic): it connects to the broker and
\* raises when that fails, or at once when the topic is None
ProducerOutcomes(e) == IF "PULSAR_TOPIC" \in e THEN {"ok", "fail"} ELSE {"fail"}

\* the module-level code of the script (lines 9-33): load_dotenv,
\* get_pulsar_client, get_jira_config; nothing around it catches or cleans up
BImport ==
    /\ proc = "importing"
    /\ IF ClientCreated(env)
       THEN \E outcome \in ProducerOutcomes(env) :
               /\ client' = "open"
               /\ producer' = IF outcome = "ok" THEN "open" ELSE "none"
               /\ proc' = IF outcome = "ok" THEN "main" ELSE "failed"
       ELSE /\ proc' = "failed"
            /\ UNCHANGED <<client, producer>>
    /\ UNCHANGED <<env, envvars, bvars, wvars, nvars>>

\* outcomes of producer.close(): it returns, or raises (the broker does not
\* answer the close)
CloseOutcomes == {"ok", "fail"}

\* the first statement of the finally block, producer.close(): when it
\* raises, client.close() is skipped and the process ends with the exception
CloseProducer ==
    /\ proc = "main"
    /\ producer = "open"
    /\ \E outcome \in CloseOutcomes :
          IF outcome = "ok"
          THEN /\ producer' = "closed"
               /\ UNCHANGED <<proc, client>>
          ELSE /\ proc' = "failed"
               /\ UNCHANGED <<producer, client>>
    /\ UNCHANGED <<env, envvars, bvars, wvars, nvars>>

\* the second statement of the finally block, client.close(), after which
\* the script is over and the process ends; when it raises the process ends
\* with the exception and the client is not closed
CloseClient ==
    /\ proc = "main"
    /\ producer = "closed"
    /\ client = "open"
    /\ \E outcome \in CloseOutcomes :
          IF outcome = "ok"
          THEN client' = "closed" /\ proc' = "exited"
          ELSE client' = client /\ proc' = "failed"
    /\ UNCHANGED <<env, producer, envvars, bvars, wvars, nvars>>

\* lines 186-190: main() returned or raised, and the finally block calls
\* producer.close()
BCloseProducer ==
    /\ b_pc \in {"done", "crashed"}
    /\ CloseProducer

\* line 191 and the end of the script
BCloseClient ==
    /\ b_pc \in {"done", "crashed"}
    /\ CloseClient

\* main() is entered and get_all_issues sets up its loop (lines 38-40)
BStart ==
    /\ proc = "main"
    /\ b_pc = "Start"
    /\ b_pc' = "FetchPage"
    /\ start_at' = 0
    /\ issues' = <<>>
    /\ UNCHANGED <<idx, b_issue_data, b_data_for_pulsar, envvars, wvars, nvars, pvars>>

\* a for loop that starts at the last issue of `all`
AfterPagesLastFirst(all) ==
    IF all = <<>>
    THEN /\ b_pc' = "done"
         /\ idx' = 0
         /\ log' = log \o <<[msg |-> "Failed to retrieve issues from Jira."]>>
    ELSE /\ b_pc' = "PerIssueFetch"
         /\ idx' = Len(all)
         /\ log' = log

\* state of main after get_all_issues returned `all` (lines 174-178)
AfterPages(all) ==
    IF all = <<>>
    THEN /\ b_pc' = "done"
         /\ idx' = 0
         /\ log' = log \o <<[msg |-> "Failed to retrieve issues from Jira."]>>
    ELSE /\ b_pc' = "PerIssueFetch"
         /\ idx' = 1
         /\ log' = log

\* one iteration of the pagination loop (lines 42-65)
BFetchPage ==
    /\ b_pc = "FetchPage"
    /\ \E outcome \in PageOutcomesFor(env) :
         LET page == Page(start_at, max_results)
         IN  /\ requests' = Append(requests,
                   [op |-> "search", startAt |-> start_at, maxResults |-> max_results,
                    outcome |-> outcome,
                    n |-> IF outcome = "ok" THEN Len(page) ELSE 0])
             /\ CASE outcome = "ok" ->
                       /\ issues' = issues \o page
                       /\ start_at' = start_at + max_results
                       /\ IF LoopBreaks(Len(page))
                          THEN AfterPages(issues \o page)
                          ELSE /\ b_pc' = "FetchPage"
                               /\ UNCHANGED <<idx, log>>
                  [] outcome = "nokey" ->
                       \* data.get("issues", []) adds nothing, start_at
                       \* advances, data["issues"] raises KeyError
                       /\ start_at' = start_at + max_results
                       /\ b_pc' = "crashed"
                       /\ UNCHANGED <<issues, idx, log>>
                  [] OTHER ->
                       /\ UNCHANGED <<issues, start_at>>
                       /\ IF PageErrorCaught(outcome)
                          THEN /\ b_pc' = IF issues = <<>> THEN "done" ELSE "PerIssueFetch"
                               /\ idx' = IF issues = <<>> THEN 0 ELSE 1
                               /\ log' = log \o <<[msg |-> "Error fetching issues"]>>
                                             \o (IF issues = <<>>
                                                 THEN <<[msg |-> "Failed to retrieve issues from Jira."]>>
                                                 ELSE <<>>)
                          ELSE /\ b_pc' = "crashed"
                               /\ UNCHANGED <<idx, log>>
    /\ UNCHANGED <<b_issue_data, b_data_for_pulsar, corpus, sends, clock, wvars, nvars, pvars>>

\* faults of the per-issue steps are explored on the last FaultWindow issues
Faultable(k) == k > Len(issues) - FaultWindow

\* a loop that sends every message a second time before it moves on
NextIssueResend ==
    IF b_pc = "PerIssueSend" /\ \A m \in 1..Len(sends) : sends[m].data # b_data_for_pulsar
    THEN /\ b_pc' = "PerIssueSend"
         /\ idx' = idx
    ELSE /\ idx' = idx + 1
         /\ b_pc' = IF idx + 1 > Len(issues) THEN "done" ELSE "PerIssueFetch"

\* the for loop moves to its next issue, or main returns
NextIssue ==
    /\ idx' = idx + 1
    /\ b_pc' = IF idx + 1 > Len(issues) THEN "done" ELSE "PerIssueFetch"

\* line 179-180: get_issue_details(issue["id"]) and the test of its result
BFetchIssue ==
    /\ b_pc = "PerIssueFetch"
    /\ LET id == issues[idx].d["id"]
       IN  \E outcome \in IssueOutcomesFor(env) :
             /\ outcome = "ok" \/ Faultable(idx)
             /\ requests' = Append(requests,
                   [op |-> "issue", id |-> id, outcome |-> outcome, by |-> 0])
             /\ log' = log \o DetailsLog(id, outcome)
             /\ IF ~DetailsReturns(outcome)
                THEN /\ b_pc' = "crashed"
                     /\ UNCHANGED <<idx, b_issue_data>>
                ELSE LET result == get_issue_details(id, outcome)
                     IN  /\ b_issue_data' = result
                         /\ IF Truthy(result)
                            THEN /\ b_pc' = "PerIssuePrepare"
                                 /\ UNCHANGED idx
                            ELSE NextIssue
    /\ UNCHANGED <<start_at, issues, b_data_for_pulsar, corpus, sends, clock, wvars, nvars, pvars>>

\* line 181: prepare_data_for_pulsar(b_issue_data)
BPrepare ==
    /\ b_pc = "PerIssuePrepare"
    /\ LET data == prepare_data_for_pulsar(b_issue_data, Str("initial_load"), Instants[clock])
       IN  /\ b_data_for_pulsar' = data
           /\ b_pc' = IF Raised(data) THEN "crashed" ELSE "PerIssueSend"
    /\ Tick
    /\ UNCHANGED <<start_at, issues, idx, b_issue_data, corpus, requests, sends, log, wvars, nvars, pvars>>

\* line 182: send_to_pulsar(b_data_for_pulsar)
BSend ==
    /\ b_pc = "PerIssueSend"
    /\ \E outcome \in SendOutcomes :
         /\ outcome = "ok" \/ Faultable(idx)
         /\ sends' = Append(sends, [by |-> 0, data |-> b_data_for_pulsar, outcome |-> outcome])
         /\ log' = log \o SendLog(b_data_for_pulsar, outcome)
         /\ IF SendReturns(outcome)
            THEN NextIssue
            ELSE /\ b_pc' = "crashed"
                 /\ UNCHANGED idx
    /\ UNCHANGED <<start_at, issues, b_issue_data, b_data_for_pulsar, corpus, requests, clock, wvars, nvars, pvars>>

BNext ==
    \/ BStart \/ BFetchPage \/ BFetchIssue \/ BPrepare \/ BSend
    \/ BCloseProducer \/ BCloseClient

SpecBackfill == BInit /\ [][BNext]_vars

\* the script runs to its end: no step of it waits for anything but the
\* answer of the tracker or of the bus, which the model always gives
SpecBackfillFair == SpecBackfill /\ WF_vars(BNext)

\* the script from the start of the process, in any environment
SInit ==
    /\ corpus \in 0..SmallBatch
    /\ EnvInit
    /\ env \in SUBSET EnvVars
    /\ proc = "importing"
    /\ client = "none"
    /\ producer = "none"
    /\ b_pc = "Start"
    /\ start_at = 0
    /\ issues = <<>>
    /\ idx = 0
    /\ b_issue_data = Null
    /\ b_data_for_pulsar = Null
    /\ WIdle
    /\ NIdle

SNext == BImport \/ BNext

SpecStartup == SInit /\ [][SNext]_vars

----------------------------------------------------------------------------
(* jira-pulsar-webhook.py: jira_webhook                                    *)

\* the POST requests the endpoint is sent: a body that is not JSON, a JSON
\* object without `issue`, one whose `issue` has no `id`, one naming an issue
WebhookBodies ==
    {[is_json |-> FALSE, json |-> Unset],
     [is_json |-> TRUE, json |-> Dict([webhookEvent |-> Str("jira:issue_updated")])],
     [is_json |-> TRUE, json |-> Dict([issue |-> Dict([key |-> KeyOf(1)])])]}
    \cup {[is_json |-> TRUE, json |-> Dict([issue |-> Dict([id |-> IdOf(k)])])] :
            k \in 1..WebhookIssues}

\* the X-Event-Key header, Unset when the request has none; the view never
\* inspects the value, so one key that no list of Jira events has stands for
\* every header value
EventKeys == {Unset, Str("custom:unlisted")}

\* jsonify(...), status of the return statements, and the response Flask
\* makes of an exception the view does not handle
BadFormat == [status |-> 400, body |-> "Invalid request format; expected JSON"]

NoIssue == [status |-> 400, body |-> "No issue data found in payload"]

FetchFailed == [status |-> 500, body |-> "Failed to fetch issue details"]

Success == [status |-> 200, body |-> "success"]

Unhandled == [status |-> 500, body |-> "Internal Server Error"]

\* lines 136-152 up to the call of get_issue_details: the response the view
\* returns before any fetch, or Unset when it goes on to fetch
EarlyResponse(req) ==
    IF ~req.is_json THEN BadFormat
    ELSE IF "issue" \in DOMAIN req.json.d
         THEN IF IsDict(req.json.d["issue"]) /\ "id" \in DOMAIN req.json.d["issue"].d
              THEN Unset
              ELSE Unhandled
         ELSE NoIssue

\* the backfill's event type as the default of the header
EventTypeOfBackfillDefault(req) ==
    IF req.event_key = Unset THEN Str("initial_load") ELSE req.event_key

\* line 140: request.headers.get('X-Event-Key', 'Unknown Event')
EventTypeOf(req) == IF req.event_key = Unset THEN Str("Unknown Event") ELSE req.event_key

\* the requests the view is called with: every header with the bodies that
\* reach the fetch; the bodies answered before it (where the header has no
\* effect) without a header
WebhookRequests ==
    {req \in {[is_json |-> b.is_json, json |-> b.json, event_key |-> e] :
                 b \in WebhookBodies, e \in EventKeys} :
        EarlyResponse(req) = Unset \/ req.event_key = Unset}

\* lines 147-148: the response after send_to_pulsar returned
AfterSend(outcome) == Success

WInit ==
    /\ corpus = WebhookIssues
    /\ EnvInit
    /\ Running
    /\ w_pc = [i \in Invocations |-> "Idle"]
    /\ w_req = [i \in Invocations |-> Unset]
    /\ w_event_type = [i \in Invocations |-> Unset]
    /\ w_issue_data = [i \in Invocations |-> Null]
    /\ w_data = [i \in Invocations |-> Null]
    /\ w_resp = [i \in Invocations |-> Unset]
    /\ BIdle
    /\ NIdle

\* a POST /jira-webhook arrives and is dispatched to the view; invocations
\* are numbered in the order of their arrival, and none arrives once app.run
\* has ended (the producer is closed right after)
WReceive(i) ==
    /\ proc = "main"
    /\ producer = "open"
    /\ w_pc[i] = "Idle"
    /\ \A j \in 1..(i - 1) : w_pc[j] # "Idle"
    /\ \E req \in WebhookRequests : w_req' = [w_req EXCEPT ![i] = req]
    /\ w_pc' = [w_pc EXCEPT ![i] = "Received"]
    /\ UNCHANGED <<w_event_type, w_issue_data, w_data, w_resp, envvars, bvars, nvars, pvars>>

\* lines 136-143 and 151-152
WValidate(i) ==
    /\ proc = "main"
    /\ w_pc[i] = "Received"
    /\ LET early == EarlyResponse(w_req[i])
       IN  /\ w_resp' = [w_resp EXCEPT ![i] = early]
           /\ w_pc' = [w_pc EXCEPT ![i] =
                         CASE early = Unset -> "Validated"
                           [] early = Unhandled -> "Error"
                           [] OTHER -> "Rejected"]
           /\ w_event_type' = [w_event_type EXCEPT ![i] =
                                 IF w_req[i].is_json THEN EventTypeOf(w_req[i]) ELSE Unset]
    /\ UNCHANGED <<w_req, w_issue_data, w_data, envvars, bvars, nvars, pvars>>

\* line 144, get_issue_details up to requests.get (lines 37-42): the request
\* goes out and the view waits for the answer, which the tracker has chosen
WFetch(i) ==
    /\ proc = "main"
    /\ w_pc[i] = "Validated"
    /\ LET id == w_req[i].json.d["issue"].d["id"]
       IN  \E outcome \in IssueOutcomesFor(env) :
             requests' = Append(requests,
                   [op |-> "issue", id |-> id, outcome |-> outcome, by |-> i])
    /\ w_pc' = [w_pc EXCEPT ![i] = "Fetching"]
    /\ UNCHANGED <<w_req, w_event_type, w_issue_data, w_data, w_resp,
                   corpus, sends, log, clock, bvars, nvars, pvars>>

\* the request invocation i is waiting for
PendingRequest(i) ==
    requests[CHOOSE r \in 1..Len(requests) :
                requests[r].op = "issue" /\ requests[r].by = i]

\* requests.get returns or raises: the rest of get_issue_details (lines
\* 43-47) and lines 145 and 149-150
WFetchReturn(i) ==
    /\ proc = "main"
    /\ w_pc[i] = "Fetching"
    /\ LET id == PendingRequest(i).id
           outcome == PendingRequest(i).outcome
       IN  /\ log' = log \o DetailsLog(id, outcome)
           /\ IF ~DetailsReturns(outcome)
              THEN /\ w_pc' = [w_pc EXCEPT ![i] = "Error"]
                   /\ w_resp' = [w_resp EXCEPT ![i] = Unhandled]
                   /\ UNCHANGED w_issue_data
              ELSE LET result == get_issue_details(id, outcome)
                   IN  /\ w_issue_data' = [w_issue_data EXCEPT ![i] = result]
                       /\ IF Truthy(result)
                          THEN /\ w_pc' = [w_pc EXCEPT ![i] = "Normalizing"]
                               /\ UNCHANGED w_resp
                          ELSE /\ w_pc' = [w_pc EXCEPT ![i] = "Failed"]
                               /\ w_resp' = [w_resp EXCEPT ![i] = FetchFailed]
    /\ UNCHANGED <<w_req, w_event_type, w_data, corpus, requests, sends, clock, bvars, nvars, pvars>>

\* line 146
WPrepare(i) ==
    /\ proc = "main"
    /\ w_pc[i] = "Normalizing"
    /\ LET data == prepare_data_for_pulsar(w_issue_data[i], w_event_type[i], Instants[clock])
       IN  /\ w_data' = [w_data EXCEPT ![i] = data]
           /\ IF Raised(data)
              THEN /\ w_pc' = [w_pc EXCEPT ![i] = "Error"]
                   /\ w_resp' = [w_resp EXCEPT ![i] = Unhandled]
              ELSE /\ w_pc' = [w_pc EXCEPT ![i] = "Prepared"]
                   /\ UNCHANGED w_resp
    /\ Tick
    /\ UNCHANGED <<w_req, w_event_type, w_issue_data, corpus, requests, sends, log, bvars, nvars, pvars>>

\* producer.send on a producer that was closed raises
SendOutcomesFor(p) == IF p = "open" THEN SendOutcomes ELSE {"fail"}

\* a view that keeps the envelope in a module-level variable, which another
\* invocation in flight overwrites
SentDataShared(i) ==
    LET others == {j \in Invocations : j # i /\ IsDict(w_data[j])}
    IN  IF others = {} THEN w_data[i] ELSE w_data[CHOOSE j \in others : TRUE]

\* line 147: the argument of send_to_pulsar is the view's local
\* data_for_pulsar
SentData(i) == w_data[i]

\* line 147, send_to_pulsar up to producer.send (line 128): the message goes
\* to the bus and the view waits inside producer.send
WSend(i) ==
    /\ proc = "main"
    /\ w_pc[i] = "Prepared"
    /\ \E outcome \in SendOutcomesFor(producer) :
         sends' = Append(sends, [by |-> i, data |-> SentData(i), outcome |-> outcome])
    /\ w_pc' = [w_pc EXCEPT ![i] = "Publishing"]
    /\ UNCHANGED <<w_req, w_event_type, w_issue_data, w_data, w_resp,
                   corpus, requests, log, clock, bvars, nvars, pvars>>

\* the send invocation i is waiting for
PendingSend(i) == sends[CHOOSE m \in 1..Len(sends) : sends[m].by = i]

\* producer.send returns or raises: lines 129-131 and line 148
WSendReturn(i) ==
    /\ proc = "main"
    /\ w_pc[i] = "Publishing"
    /\ LET outcome == PendingSend(i).outcome
       IN  /\ log' = log \o SendLog(PendingSend(i).data, outcome)
           /\ IF SendReturns(outcome)
              THEN LET resp == AfterSend(outcome)
                   IN  /\ w_resp' = [w_resp EXCEPT ![i] = resp]
                       /\ w_pc' = [w_pc EXCEPT ![i] = IF resp = Success THEN "Done" ELSE "Failed"]
              ELSE /\ w_resp' = [w_resp EXCEPT ![i] = Unhandled]
                   /\ w_pc' = [w_pc EXCEPT ![i] = "Error"]
    /\ UNCHANGED <<w_req, w_event_type, w_issue_data, w_data, corpus, requests, sends, clock, bvars, nvars, pvars>>

\* lines 155-159: app.run returns or raises (port in use, Ctrl-C) and the
\* finally block calls producer.close(); the views that are running go on
WCloseProducer ==
    /\ \A i \in Invocations : w_pc[i] # "off"
    /\ CloseProducer

\* line 160 and the end of the script: the process ends with the views that
\* were still running
WCloseClient ==
    /\ \A i \in Invocations : w_pc[i] # "off"
    /\ CloseClient

WStep(i) ==
    \/ WReceive(i) \/ WValidate(i) \/ WFetch(i) \/ WFetchReturn(i)
    \/ WPrepare(i) \/ WSend(i) \/ WSendReturn(i)

WNext == (\E i \in Invocations : WStep(i)) \/ WCloseProducer \/ WCloseClient

SpecWebhook == WInit /\ [][WNext]_vars

\* either script, run on its own
DInit == BInit \/ WInit

DNext == BNext \/ WNext

SpecDrivers == DInit /\ [][DNext]_vars

----------------------------------------------------------------------------
(* Properties of the backfill driver (SpecBackfill)                        *)

IsSearch(r) == r.op = "search"

IsIssueRequest(r) == r.op = "issue"

\* the page requests and the issue requests the tracker received, in order
Searches == SelectSeq(requests, IsSearch)

IssueRequests == SelectSeq(requests, IsIssueRequest)

IsDelivered(m) == m.outcome = "ok"

\* the messages on the topic
Published == SelectSeq(sends, IsDelivered)

IdsOf(seq) == [k \in 1..Len(seq) |-> seq[k].id]

DataIdsOf(seq) == [k \in 1..Len(seq) |-> seq[k].data.d["id"]]

BatchIds == [k \in 1..Len(issues) |-> issues[k].d["id"]]

FetchedOk(r) == r.outcome = "ok"

AllPagesOk == \A k \in 1..Len(Searches) : Searches[k].outcome = "ok"

\* get_all_issues has returned or raised
PagingOver == b_pc \notin {"off", "Start", "FetchPage"}

\* main has returned or raised
BTerminal == b_pc \in {"done", "crashed"}

\* main reached its for loop
InLoop == idx >= 1

\* C1: when every page fetch succeeds, get_all_issues requests the offsets
\* 0, P, 2P, ... in order, every page but the last is full and the loop ends
\* right after the first page shorter than P, so that it makes exactly
\* floor(N/P)+1 requests (sizes P, ..., P, N mod P) and returns the N
\* summaries in page order.
C1_Pagination ==
    AllPagesOk =>
      /\ \A k \in 1..Len(Searches) :
            /\ Searches[k].startAt = (k - 1) * max_results
            /\ Searches[k].maxResults = max_results
            /\ k < Len(Searches) => Searches[k].n = max_results
      /\ PagingOver =>
            /\ Len(Searches) = (corpus \div max_results) + 1
            /\ Searches[Len(Searches)].n = corpus % max_results
            /\ issues = [i \in 1..corpus |-> Summary(i)]

\* a backfill over MaxIssues = 127 issues ended after 3 pages of 50, 50, 27
C1_Witness ==
    /\ b_pc = "done"
    /\ AllPagesOk
    /\ corpus = MaxIssues
    /\ Len(Searches) = 3
    /\ Searches[3].n = corpus - 2 * max_results
    /\ Len(issues) = corpus

\* C2: whatever subset of the batch fails to be fetched, the driver requests
\* every issue of the batch once, in order, and calls the publisher for
\* exactly the issues whose fetch returned an issue, in order; each of those
\* is on the topic unless its own send failed.
C2_FetchIsolation ==
    (BTerminal /\ InLoop) =>
      /\ b_pc = "done"
      /\ IdsOf(IssueRequests) = BatchIds
      /\ DataIdsOf(sends) = IdsOf(SelectSeq(IssueRequests, FetchedOk))
      /\ (\A m \in 1..Len(sends) : sends[m].outcome = "ok")
            => DataIdsOf(Published) = IdsOf(SelectSeq(IssueRequests, FetchedOk))

\* a batch of 3 whose 2nd fetch failed: issues 1 and 3 are on the topic
C2_Witness ==
    /\ b_pc = "done"
    /\ Len(issues) = 3
    /\ Len(IssueRequests) = 3
    /\ IssueRequests[1].outcome = "ok"
    /\ IssueRequests[2].outcome \in {"transport", "http"}
    /\ IssueRequests[3].outcome = "ok"
    /\ DataIdsOf(Published) = <<IdOf(1), IdOf(3)>>

\* position in the batch of the issue a send carries
PositionOf(m) == CHOOSE k \in 1..Len(issues) : issues[k].d["id"] = m.data.d["id"]

\* C3: a failed send does not abort the run: main still returns normally,
\* and every issue after the one whose send failed is still requested and,
\* when its fetch returns an issue, handed to the publisher.
C3_PublishIsolation ==
    \A m \in 1..Len(sends) :
      (sends[m].outcome = "fail" /\ BTerminal) =>
        /\ b_pc = "done"
        /\ \A j \in (PositionOf(sends[m]) + 1)..Len(issues) :
              \E r \in 1..Len(IssueRequests) :
                 /\ IssueRequests[r].id = issues[j].d["id"]
                 /\ IssueRequests[r].outcome = "ok" =>
                       \E q \in (m + 1)..Len(sends) :
                          sends[q].data.d["id"] = issues[j].d["id"]

\* a send failed and a later issue was fetched and sent
C3_Witness ==
    /\ b_pc = "done"
    /\ \E m \in 1..Len(sends) :
          /\ sends[m].outcome = "fail"
          /\ \E q \in (m + 1)..Len(sends) : sends[q].outcome = "ok"

----------------------------------------------------------------------------
(* Properties of the webhook driver (SpecWebhook)                          *)

\* the view has returned its response
WTerminal(i) == w_pc[i] \in {"Done", "Failed", "Rejected", "Error"}

\* the issue requests and the sends made by invocation i
RequestsBy(i) == {r \in 1..Len(requests) : IsIssueRequest(requests[r]) /\ requests[r].by = i}

SendsBy(i) == {m \in 1..Len(sends) : sends[m].by = i}

\* C4: claim as stated. When the fetch succeeded and the publish failed the
\* invocation ends Failed with a failure response other than the
\* fetch-failure response, and a success response implies a delivered message.
C4_DeliveryFailureSurfaced ==
    \A i \in Invocations :
      WTerminal(i) =>
        /\ (\E m \in SendsBy(i) : sends[m].outcome = "fail") =>
              /\ w_pc[i] = "Failed"
              /\ w_resp[i].status >= 400
              /\ w_resp[i] # FetchFailed
        /\ w_resp[i] = Success => \E m \in SendsBy(i) : sends[m].outcome = "ok"

\* what the state of invocation i must be once its fetch failed or was
\* empty and requests.get has returned
FetchFailurePath(i) ==
    (w_pc[i] # "Fetching" /\ \E r \in RequestsBy(i) : requests[r].outcome # "ok") =>
       /\ w_pc[i] = "Failed"
       /\ w_resp[i] = FetchFailed
       /\ w_data[i] = Null
       /\ SendsBy(i) = {}

\* every send of invocation i follows its own successful, non-empty fetch of
\* the issue the message carries
SendAfterOwnFetch(i) ==
    \A m \in SendsBy(i) :
       /\ \E r \in RequestsBy(i) :
             /\ requests[r].outcome = "ok"
             /\ requests[r].id = sends[m].data.d["id"]
       /\ Truthy(w_issue_data[i])
       /\ w_issue_data[i].d["id"] = sends[m].data.d["id"]

\* an invocation enters Failed from Fetching only
FailedFromFetching ==
    \A i \in Invocations :
       (w_pc[i] # "Failed" /\ w_pc'[i] = "Failed") => w_pc[i] = "Fetching"

\* C5: when the fetch of the referenced issue fails (transport error, non-2xx)
\* or returns an empty issue, the invocation goes Received -> Fetching ->
\* Failed, answers with the fetch-failure response, and neither normalizes nor
\* publishes; a publish is attempted only after a successful, non-empty fetch
\* of that same issue by the same invocation.
C5_FetchFailure ==
    /\ [](\A i \in Invocations : FetchFailurePath(i) /\ SendAfterOwnFetch(i))
    /\ [][FailedFromFetching]_vars

\* an invocation whose fetch failed has answered 500 without publishing
C5_Witness ==
    \E i \in Invocations :
       /\ w_pc[i] = "Failed"
       /\ w_resp[i].status = 500
       /\ \E r \in RequestsBy(i) : requests[r].outcome \in {"transport", "http", "empty"}
       /\ SendsBy(i) = {}

\* the request does not meet the precondition of the webhook
Malformed(req) ==
    \/ ~req.is_json
    \/ "issue" \notin DOMAIN req.json.d
    \/ "id" \notin DOMAIN req.json.d["issue"].d

\* C6: claim as stated. A request whose body is not JSON, has no `issue`, or
\* whose `issue` has no `id` is answered with a client-side rejection (400),
\* and causes no tracker fetch and no publish.
C6_BadRequestRejected ==
    \A i \in Invocations :
      (w_pc[i] \notin {"Idle", "Received"} /\ Malformed(w_req[i])) =>
        /\ w_resp[i].status = 400
        /\ RequestsBy(i) = {}
        /\ SendsBy(i) = {}

----------------------------------------------------------------------------
(* Page-fetch failures of the backfill (SpecBackfill)                      *)

\* C7: claim as stated. After a page fetch that failed in any way (tracker
\* unreachable, non-2xx, body without `issues`) no further page is requested
\* and every summary accumulated from the earlier pages is still fetched.
C7_PageFailSoft ==
    /\ \A k \in 1..Len(Searches) : Searches[k].outcome # "ok" => k = Len(Searches)
    /\ (BTerminal /\ Len(Searches) > 0 /\ Searches[Len(Searches)].outcome # "ok") =>
          IdsOf(IssueRequests) = BatchIds

----------------------------------------------------------------------------
(* Properties of the normalizer (SpecNormalize)                            *)

\* keys of the rebuilt comment entries
CommentKeys == {"author", "body", "created", "updated"}

AuthorKeys == {"displayName", "emailAddress"}

\* every dict of v found under key k, at any of the depths the output has
NestedWhitelisted(fields) ==
    \A k \in DOMAIN fields :
       IsDict(fields[k]) =>
          /\ k \in DOMAIN relevant_nested_fields =>
                DOMAIN fields[k].d \subseteq relevant_nested_fields[k]
          /\ \A k2 \in DOMAIN fields[k].d :
                (k2 \in DOMAIN relevant_nested_fields /\ IsDict(fields[k].d[k2])) =>
                   DOMAIN fields[k].d[k2].d \subseteq relevant_nested_fields[k2]

CommentsWhitelisted(fields) ==
    ("comment" \in DOMAIN fields /\ IsDict(fields["comment"])) =>
       /\ DOMAIN fields["comment"].d \subseteq {"comments"}
       /\ \A i \in 1..Len(fields["comment"].d["comments"].l) :
             LET c == fields["comment"].d["comments"].l[i]
             IN  /\ DOMAIN c.d \subseteq CommentKeys
                 /\ DOMAIN c.d["author"].d \subseteq AuthorKeys

\* C8: claim as stated. The output of normalize has no key outside the
\* whitelist at any level: top level within {id,key,fields}, `fields` within
\* the 12 subfields, every statusCategory, creator, reporter, project and
\* issuetype object within its attribute set, every comment rebuilt.
C8_WhitelistComplete ==
    (n_pc # "input" /\ ~Raised(n_out)) =>
       /\ DOMAIN n_out.d \subseteq relevant_fields
       /\ "fields" \in DOMAIN n_out.d =>
             /\ DOMAIN n_out.d["fields"].d \subseteq relevant_subfields
             /\ NestedWhitelisted(n_out.d["fields"].d)
             /\ CommentsWhitelisted(n_out.d["fields"].d)

\* C9: normalize(normalize(x)) = normalize(x) for every raw issue x that
\* normalize accepts: the normalized record is a fixed point.
C9_Idempotent ==
    n_pc \in {"renormalized", "built"} => (~Raised(n_again) /\ n_again = n_out)

\* a raw issue with extraneous keys and comments was normalized twice
C9_Witness ==
    /\ n_pc = "renormalized"
    /\ n_out # n_raw
    /\ "fields" \in DOMAIN n_out.d
    /\ "comment" \in DOMAIN n_out.d["fields"].d
    /\ IsDict(n_out.d["fields"].d["comment"])
    /\ Len(n_out.d["fields"].d["comment"].d["comments"].l) = 2
    /\ "status" \in DOMAIN n_out.d["fields"].d

\* the raw issue has a part of the wrong type (not merely a missing part)
IllTyped(raw) ==
    /\ "fields" \in DOMAIN raw.d
    /\ \/ ~IsDict(raw.d["fields"])
       \/ /\ "comment" \in DOMAIN raw.d["fields"].d
          /\ IsDict(raw.d["fields"].d["comment"])
          /\ "comments" \in DOMAIN raw.d["fields"].d["comment"].d
          /\ LET cs == raw.d["fields"].d["comment"].d["comments"]
             IN  \/ ~IsList(cs)
                 \/ \E i \in 1..Len(cs.l) :
                       "author" \in DOMAIN cs.l[i].d /\ ~IsDict(cs.l[i].d["author"])

\* the raw issue has a key that is not a str (null): wrong type, not missing
KeyIllTyped(raw) == "key" \in DOMAIN raw.d /\ ~IsStr(raw.d["key"])

\* C10: normalize does not fail on a raw issue whose optional parts are
\* missing; for a raw issue without `fields` the output has no `fields` key
\* and is the input restricted to {id, key}; and the envelope built from it
\* (its key being a str or missing) is built without error and carries no
\* `fields` either.
C10_MissingFields ==
    /\ (n_pc # "input" /\ ~IllTyped(n_raw)) => ~Raised(n_out)
    /\ (n_pc # "input" /\ "fields" \notin DOMAIN n_raw.d) =>
          /\ ~Raised(n_out)
          /\ "fields" \notin DOMAIN n_out.d
          /\ n_out = Dict(Restrict(n_raw.d, {"id", "key"}))
    /\ (n_pc = "built" /\ "fields" \notin DOMAIN n_raw.d /\ ~KeyIllTyped(n_raw)) =>
          /\ ~Raised(n_env)
          /\ "fields" \notin DOMAIN n_env.d
          /\ Restrict(n_env.d, {"id", "key"}) = Restrict(n_raw.d, {"id", "key"})
          /\ DOMAIN n_env.d =
                (DOMAIN n_raw.d \cap {"id", "key"}) \cup {"timestamp", "date", "event_type", "url"}

\* the envelope of {id, key, self} (no `fields`) was built
C10_Witness ==
    /\ n_pc = "built"
    /\ DOMAIN n_raw.d = {"id", "key", "self"}
    /\ n_out = Dict([id |-> Str("10001"), key |-> Str("TES-1")])
    /\ ~Raised(n_env)

----------------------------------------------------------------------------
(* C11: every envelope built by prepare_data_for_pulsar has a date equal   *)
(* to the part of its timestamp before the T, which is its first 10        *)
(* characters, and a url equal to <base>/browse/<key> for the raw issue's  *)
(* key; a raw issue with no key or an empty key is built without an error  *)
(* and its url has nothing after <base>/browse/. No envelope is produced   *)
(* from a raw issue whose key is not a str (null): the build raises.       *)

Built == n_pc = "built"

\* the key of the raw issue as a sequence of pieces, empty when absent
RawKey == Pieces(PyGet(n_raw.d, "key", Str("")))

NoKey == "key" \notin DOMAIN n_raw.d \/ n_raw.d["key"] = Str("")

BrowseBase == <<jira_config.jira_url, "/browse/">>

C11_EnvelopeShape ==
    /\ (Built /\ KeyIllTyped(n_raw)) => Raised(n_env)
    /\ (Built /\ ~KeyIllTyped(n_raw)) =>
        /\ ~Raised(n_env)
        /\ {"timestamp", "date", "url"} \subseteq DOMAIN n_env.d
        /\ LET timestamp == n_env.d["timestamp"].c
               date      == n_env.d["date"].c
               url       == n_env.d["url"].c
           IN  /\ Len(timestamp) > 10
               /\ timestamp[11] = "T"
               /\ \A i \in 1..10 : timestamp[i] # "T"
               /\ date = SubSeq(timestamp, 1, 10)
               /\ url = BrowseBase \o RawKey
               /\ NoKey => url = BrowseBase

C11_Witness ==
    /\ Built
    /\ NoKey
    /\ ~Raised(n_env)
    /\ n_env.d["url"].c = BrowseBase
    /\ Len(n_env.d["date"].c) = 10

----------------------------------------------------------------------------
(* Parts of the raw issue and of the output the normalizer claims speak of *)

Normalized == n_pc # "input" /\ ~Raised(n_out)

HasFields(v) == "fields" \in DOMAIN v.d /\ IsDict(v.d["fields"])

\* fields.comment of v when it is an object, else Unset
CommentObject(v) ==
    IF HasFields(v) /\ "comment" \in DOMAIN v.d["fields"].d
                    /\ IsDict(v.d["fields"].d["comment"])
    THEN v.d["fields"].d["comment"]
    ELSE Unset

\* fields.comment.comments of v when it is a list, else Unset
CommentList(v) ==
    LET c == CommentObject(v)
    IN  IF c # Unset /\ "comments" \in DOMAIN c.d /\ IsList(c.d["comments"])
        THEN c.d["comments"]
        ELSE Unset

\* C14: claim as stated. When fields.comment of the raw issue is absent or
\* is not an object the output's fields have no comment key, and the output
\* has an empty comment list only when comment.comments of the raw issue is
\* an empty list.
C14_CommentKey ==
    (Normalized /\ HasFields(n_out)) =>
       /\ CommentObject(n_raw) = Unset => "comment" \notin DOMAIN n_out.d["fields"].d
       /\ CommentList(n_out) = List(<<>>) => CommentList(n_raw) = List(<<>>)

\* the attributes of dict out are attributes of dict raw, and null only
\* where raw has null
Carried(out, raw) ==
    \A a \in DOMAIN out.d :
       /\ a \in DOMAIN raw.d
       /\ out.d[a] = Null => raw.d[a] = Null

\* C15: claim as stated. Every attribute of a rebuilt comment entry and of
\* its author is in the output only if the raw entry has it, and is null
\* only if the raw entry has null there; the same for the subfields of
\* fields and the attributes of the whitelisted sub-objects.
C15_NoNullDefault ==
    (Normalized /\ HasFields(n_out)) =>
       /\ Carried(n_out.d["fields"], n_raw.d["fields"])
       /\ \A k \in DOMAIN n_out.d["fields"].d :
             (k # "comment" /\ IsDict(n_out.d["fields"].d[k])) =>
                Carried(n_out.d["fields"].d[k], n_raw.d["fields"].d[k])
       /\ (CommentList(n_out) # Unset /\ CommentList(n_raw) # Unset) =>
             \A i \in 1..Len(CommentList(n_out).l) :
                LET out == CommentList(n_out).l[i]
                    raw == CommentList(n_raw).l[i]
                IN  /\ Carried(out, raw)
                    /\ ("author" \in DOMAIN raw.d /\ IsDict(raw.d["author"])) =>
                          Carried(out.d["author"], raw.d["author"])

\* C16: claim as stated. Every statusCategory, creator, reporter, project
\* and issuetype object of the output holds only its fixed attributes; the
\* statusCategory inside fields.status holds only key, name and colorName.
C16_NestedPruned ==
    (Normalized /\ HasFields(n_out)) =>
       LET fields == n_out.d["fields"].d
       IN  /\ NestedWhitelisted(fields)
           /\ ("status" \in DOMAIN fields /\ IsDict(fields["status"])
                 /\ "statusCategory" \in DOMAIN fields["status"].d
                 /\ IsDict(fields["status"].d["statusCategory"])) =>
                 DOMAIN fields["status"].d["statusCategory"].d
                    \subseteq {"key", "name", "colorName"}

----------------------------------------------------------------------------
(* Properties of both drivers (SpecDrivers)                                *)

\* C12: every message the backfill publishes has event_type "initial_load";
\* every message a webhook invocation publishes has the request's
\* X-Event-Key header as event_type, or "Unknown Event" when the request has
\* no such header; and no event type makes the view reject or drop a
\* well-formed request: once its issue is fetched the message is sent.
C12_EventType ==
    /\ \A m \in 1..Len(sends) :
          sends[m].by = 0 => sends[m].data.d["event_type"] = Str("initial_load")
    /\ \A i \in Invocations :
          /\ \A m \in SendsBy(i) :
                sends[m].data.d["event_type"] =
                   IF w_req[i].event_key = Unset THEN Str("Unknown Event")
                   ELSE w_req[i].event_key
          /\ (WTerminal(i) /\ ~Malformed(w_req[i])
                /\ \E r \in RequestsBy(i) : requests[r].outcome = "ok") =>
                /\ SendsBy(i) # {}
                /\ w_pc[i] \notin {"Rejected", "Error"}

\* two events were published, one without a header and one with an
\* unlisted event key
C12_Witness ==
    \E i, j \in Invocations :
       /\ w_req[i] # Unset /\ w_req[i].event_key = Unset
       /\ w_req[j] # Unset /\ w_req[j].event_key = Str("custom:unlisted")
       /\ \E m \in SendsBy(i) : sends[m].data.d["event_type"] = Str("Unknown Event")
       /\ \E m \in SendsBy(j) : sends[m].data.d["event_type"] = Str("custom:unlisted")

\* the issue requests and the sends of the backfill run
BackfillRequests == RequestsBy(0)

BackfillSends == SendsBy(0)

\* C17: one webhook invocation makes at most one issue request and at most
\* one send; a backfill run makes at most one issue request and at most one
\* send per accumulated summary, and none after a failure for the same
\* issue; every message is one issue (an object with one id), so a backfill
\* run sends at most as many messages as it accumulated summaries.
C17_SingleAttempt ==
    /\ \A i \in Invocations :
          /\ Cardinality(RequestsBy(i)) <= 1
          /\ Cardinality(SendsBy(i)) <= 1
    /\ LET rs == BackfillRequests
           ss == BackfillSends
       IN  /\ \A a, b \in rs : a # b => requests[a].id # requests[b].id
           /\ \A a, b \in ss : a # b => sends[a].data.d["id"] # sends[b].data.d["id"]
           /\ \A r \in rs :
                 requests[r].outcome # "ok" =>
                    \A m \in ss : sends[m].data.d["id"] # requests[r].id
    /\ \A m \in 1..Len(sends) :
          /\ IsDict(sends[m].data)
          /\ IsStr(sends[m].data.d["id"])
    /\ Cardinality(BackfillSends) <= Len(issues)
    /\ Cardinality(BackfillRequests) <= Len(issues)

\* a backfill over 3 issues ended after a failed fetch and a failed send,
\* with 3 issue requests and 2 sends
C17_Witness ==
    /\ b_pc = "done"
    /\ Len(issues) = 3
    /\ Cardinality(BackfillRequests) = 3
    /\ Cardinality(BackfillSends) = 2
    /\ \E r \in BackfillRequests : requests[r].outcome # "ok"
    /\ \E m \in BackfillSends : sends[m].outcome = "fail"

----------------------------------------------------------------------------
(* Order of the backfill (SpecBackfill)                                    *)

\* the ids of the issues whose fetch returned an issue, in request order
FetchedIds == IdsOf(SelectSeq(IssueRequests, FetchedOk))

\* an issue was fetched and its message is not sent yet
SendPending == b_pc \in {"PerIssuePrepare", "PerIssueSend"}

\* C18: every page request precedes every issue request; the issues are
\* requested in the order of the accumulated summaries, which is page
\* order; when an issue is requested every earlier fetched issue has been
\* sent, so that the ids sent are, in the same order, a subsequence of the
\* accumulated summaries.
C18_Ordering ==
    /\ \A a \in 1..(Len(requests) - 1) :
          IsIssueRequest(requests[a]) => IsIssueRequest(requests[a + 1])
    /\ \A k \in 1..Len(issues) : issues[k] = Summary(k)
    /\ Len(IssueRequests) <= Len(issues)
    /\ IdsOf(IssueRequests) = SubSeq(BatchIds, 1, Len(IssueRequests))
    /\ DataIdsOf(sends) = IF SendPending
                          THEN SubSeq(FetchedIds, 1, Len(FetchedIds) - 1)
                          ELSE FetchedIds
    /\ \A m \in 1..(Len(sends) - 1) :
          PositionOf(sends[m]) < PositionOf(sends[m + 1])

\* a backfill over two full pages ended with all but the 99th issue sent
C18_Witness ==
    /\ b_pc = "done"
    /\ Len(Searches) = 3
    /\ Len(issues) = 2 * max_results
    /\ Len(sends) = Len(issues) - 1
    /\ IssueRequests[Len(issues) - 1].outcome # "ok"
    /\ sends[Len(sends)].data.d["id"] = IdOf(Len(issues))

\* C19: claim as stated. Whatever the page fetches, issue fetches and sends
\* do, main eventually returns (the driver is done) and never ends with an
\* exception.
C19_Termination ==
    /\ <>(b_pc = "done")
    /\ [](b_pc # "crashed")

----------------------------------------------------------------------------
(* Start and end of the process (SpecStartup)                              *)

\* a request to the tracker or a send was attempted
SyncAttempted == Len(requests) > 0 \/ Len(sends) > 0

\* C13: claim as stated. When one of the six variables is not set the
\* process fails during start-up and attempts no page fetch, no issue fetch
\* and no send.
C13_ConfigFailFast ==
    env # EnvVars =>
       /\ ~SyncAttempted
       /\ proc # "exited"

\* the process has ended, normally or with an exception
Ended == proc \in {"exited", "failed"}

\* C20: claim as stated. When the process has ended, on any path, neither
\* the client nor the producer is left open.
C20_Released ==
    Ended => (client # "open" /\ producer # "open")

----------------------------------------------------------------------------
(* What the scripts print about failures (SpecDrivers)                     *)

\* the printed lines that report a failure
ErrorMessages ==
    {"Error fetching details for issue", "Error sending data to Pulsar",
     "Error fetching issues", "Failed to retrieve issues from Jira."}

\* some printed line reports a failure and names the issue id
ErrorLoggedFor(id) ==
    \E k \in 1..Len(log) :
       /\ log[k].msg \in ErrorMessages
       /\ "id" \in DOMAIN log[k]
       /\ log[k].id = id

\* the call that made the request or the send has returned (the backfill,
\* caller 0, is not observed inside a call)
Returned(by, waiting) == by = 0 \/ w_pc[by] # waiting

\* C21: claim as stated. Every issue fetch that failed and every send that
\* failed, of the backfill or of a webhook invocation, has, once the call
\* has returned, a printed line that reports the failure and carries the id
\* of that issue.
C21_ErrorObservable ==
    /\ \A r \in 1..Len(requests) :
          (IsIssueRequest(requests[r]) /\ requests[r].outcome # "ok"
             /\ Returned(requests[r].by, "Fetching")) =>
             ErrorLoggedFor(requests[r].id)
    /\ \A m \in 1..Len(sends) :
          (sends[m].outcome = "fail" /\ Returned(sends[m].by, "Publishing")) =>
             ErrorLoggedFor(sends[m].data.d["id"])

----------------------------------------------------------------------------
(* Concurrent webhook invocations (SpecWebhook)                            *)

\* the local variables of invocation i of the view
LocalOf(i) ==
    <<w_pc[i], w_req[i], w_event_type[i], w_issue_data[i], w_data[i], w_resp[i]>>

\* a step changes the locals of one invocation at most and never the
\* configuration; the handles are changed by no view (only by the finally
\* block of the main thread)
StepIsLocal ==
    /\ \A i, j \in Invocations :
          (LocalOf(i)' # LocalOf(i) /\ LocalOf(j)' # LocalOf(j)) => i = j
    /\ env' = env
    /\ <<client, producer>>' # <<client, producer>> =>
          \A i \in Invocations : LocalOf(i)' = LocalOf(i)

\* the message invocation i sent is the envelope of the issue its own
\* request names, which it fetched itself, with its own event type
OwnMessage(i) ==
    \A m \in SendsBy(i) :
       /\ sends[m].data = w_data[i]
       /\ sends[m].data.d["id"] = w_req[i].json.d["issue"].d["id"]
       /\ sends[m].data.d["id"] = w_issue_data[i].d["id"]
       /\ \E r \in RequestsBy(i) :
             requests[r].outcome = "ok" /\ requests[r].id = sends[m].data.d["id"]
       /\ sends[m].data.d["event_type"] = w_event_type[i]
       /\ sends[m].data.d["event_type"] =
             IF w_req[i].event_key = Unset THEN Str("Unknown Event")
             ELSE w_req[i].event_key

\* C22: under every interleaving of the invocations, the message an
\* invocation sends carries the issue this invocation fetched and this
\* invocation's event type; every step changes the locals of one invocation
\* only, and the configuration and the handles never change.
C22_Independence ==
    /\ [](\A i \in Invocations : OwnMessage(i))
    /\ [][StepIsLocal]_vars

\* two invocations for different issues and event types overlapped: the
\* one that fetched first sent last, and each sent its own issue
C22_Witness ==
    \E i, j \in Invocations :
       /\ i # j
       /\ w_pc[i] = "Done" /\ w_pc[j] = "Done"
       /\ w_req[i].json.d["issue"].d["id"] # w_req[j].json.d["issue"].d["id"]
       /\ w_req[i].event_key # w_req[j].event_key
       /\ Len(requests) = 2 /\ requests[1].by = i /\ requests[2].by = j
       /\ Len(sends) = 2 /\ sends[1].by = j /\ sends[2].by = i
       /\ sends[1].data.d["id"] = w_req[j].json.d["issue"].d["id"]
       /\ sends[2].data.d["id"] = w_req[i].json.d["issue"].d["id"]

====
